---- MODULE Spec2Model ----
(***************************************************************************)
(* Moderation engine of src/bot.py: the per-(group, actor) GroupUser row,  *)
(* the message handler (handle_all_messages), the /warn and /ban commands  *)
(* and the periodic job check_expired_mutes.                               *)
(*                                                                         *)
(* One group is modelled.  Update handlers run one at a time (the          *)
(* Application is built without concurrent_updates), the job runs on the   *)
(* same event loop and interleaves with a handler at every await.  An      *)
(* action is the code between two awaits of one coroutine.                 *)
(*                                                                         *)
(* Every coroutine works on its own SQLAlchemy session: an object read     *)
(* from the database is a snapshot, commit() writes the attributes whose   *)
(* value differs from the loaded one, and expires the snapshot.            *)
(*                                                                         *)
(* Time is counted in ticks of 60 minutes: the 60 minute mute is           *)
(* MuteDuration ticks, and the group's anti-flood interval is set to       *)
(* FloodTime ticks.  utcnow() is `now`; now() is `now + tz`, the clock of  *)
(* the host, tz hours ahead of UTC.                                        *)
(***************************************************************************)
EXTENDS Integers, Sequences, FiniteSets, TLC

\* ---------------------------------------------------------------- bounds
\* The clock stops at MaxTime; no event is taken for an actor with MaxWarns
\* warns, no message from one with MaxCount messages in the running
\* interval.  FloodLimit and FloodTime are the group's anti_flood_limit and
\* anti_flood_time.
MaxTime == 2
MaxWarns == 4
MaxCount == 2
FloodLimit == 1
FloodTime == 1
\* MaxBurst is MaxCount for the specification of the repeated flood, which
\* needs a message after the one that exceeded the limit.
MaxBurst == 3
\* Forbidden words of a group, characters of a word, characters of a text.
MaxWords == 2
MaxWordLen == 1
MaxTextLen == 2

\* ----------------------------------------------------- program constants
MuteDuration == 1
DefaultMuteOnWarn == 3
DefaultBanOnWarn == 5

\* The users the database can hold a row of, and the one whose messages and
\* whose handling by the admins the specifications of one actor follow.
Members == {"u1", "u2"}
Actors == {"u1"}
\* The content of a message besides its text: none, or a photo.
MediaKinds == {"none", "photo"}
\* Every content the media locks look at, by the name lock_media_command has
\* for its lock; a forward is told by the origin of the message: none, a
\* user (forward_from) or a chat (forward_from_chat).
ContentKinds == {"none", "photo", "video", "link", "sticker", "gif", "voice", "document",
                 "videonote", "poll", "game"}
Origins == {"none", "user", "chat"}
LockNames == (ContentKinds \ {"none"}) \cup {"forward"}

\* The lock_* columns of a group in which the kinds of S are locked.
Locks(S) ==
    [lock_photos |-> "photo" \in S, lock_videos |-> "video" \in S, lock_links |-> "link" \in S,
     lock_forwards |-> "forward" \in S, lock_stickers |-> "sticker" \in S,
     lock_gifs |-> "gif" \in S, lock_voice |-> "voice" \in S,
     lock_documents |-> "document" \in S, lock_videonotes |-> "videonote" \in S,
     lock_polls |-> "poll" \in S, lock_games |-> "game" \in S]

\* Characters of words and texts: a letter in its two cases and a character
\* of one case.  A string is a sequence of characters; a message without
\* text has the empty one.
Chars == {"a", "A", "b"}
Strings(n) == UNION {[1..k -> Chars] : k \in 1..n}
\* The words the group of the engine has on its list, and the bodies of the
\* messages sent to it: no text, a text without the word, a text with it.
Filtered == << <<"a">> >>
Bodies == {<<>>, <<"b">>, <<"A">>}
TzOffsets == {0, 1}
ThresholdChoices == {<<DefaultMuteOnWarn, DefaultBanOnWarn>>, <<2, 3>>, <<3, 3>>}

None == <<>>
Some(t) == <<t>>
Val(x) == x[1]

VARIABLES now, tz, group, rows, hpc, h, spc, sw, g

vars == <<now, tz, group, rows, hpc, h, spc, sw, g>>

\* datetime.utcnow() and datetime.now()
UtcNow == now
LocalNow == now + tz

\* ------------------------------------------------------- forbidden words
\* A lower() that leaves every character as it is.
LowerKeepsCase(c) == c

\* str.lower(), character by character.
Lower(c) == IF c = "A" THEN "a" ELSE c

LowerStr(t) == [i \in 1..Len(t) |-> Lower(t[i])]

\* word in message_text_lower
Contains(t, w) == \E i \in 0..(Len(t) - Len(w)) : SubSeq(t, i + 1, i + Len(w)) = w

\* add_forbidden_word: the lower-cased word is added unless it is there.
add_forbidden_word(words, word) ==
    IF \E i \in 1..Len(words) : words[i] = LowerStr(word)
    THEN words ELSE Append(words, LowerStr(word))

\* Section 6.4: the first of the group's words, in the order of the query,
\* that is in the lower-cased text.
FirstMatch(words, body) ==
    LET hits == {i \in 1..Len(words) : Contains(LowerStr(body), words[i])}
    IN IF hits = {} THEN None
       ELSE Some(words[CHOOSE i \in hits : \A j \in hits : i <= j])

\* ------------------------------------------------------------ GroupUser
NoRow == [exists |-> FALSE, warns |-> 0, is_muted |-> FALSE, mute_until |-> None,
          last_message_time |-> None, message_count_in_interval |-> 0]

GroupUser == [exists |-> TRUE, warns |-> 0, is_muted |-> FALSE, mute_until |-> None,
              last_message_time |-> None, message_count_in_interval |-> 0]

\* A commit that writes the whole object back, loaded values included.
CommitWholeObject(db, base, obj) == obj

\* session.commit(): UPDATE of the attributes whose value differs from the
\* value loaded into the session (base); the other columns keep the value
\* the database has now.
Commit(db, base, obj) ==
    [f \in DOMAIN db |-> IF obj[f] # base[f] THEN obj[f] ELSE db[f]]

\* get_or_create_group_user: the row of the actor, created with the column
\* defaults when there is none.
get_or_create_group_user(a) == IF rows[a].exists THEN rows[a] ELSE GroupUser

\* ------------------------------------------------------ handler locals
\* actor, kind, body, media, fwd: the update being handled; role: what its
\* sender is in the group; text: it has a text;
\* word, match: a forbidden word is in it, and the first one; base: the GroupUser
\* object as the handler's session loaded it; stale: the session has
\* committed and reloads the object on its next access; until: until_date;
\* cls: the rule that matched; why: the branch of the media locks taken.
\* w0, inc, nban, nmute, nunres, ndel, res, at:
\* history of the event (warns before it, warn counted, Ban, Restrict(mute)
\* and un-restrict calls issued, delete attempts, outcome of the last
\* external call, utcnow() when until_date was computed).  nlog: the AdminLog
\* records log_admin_action has added in this event.  gap: how long after
\* the actor's last counted text message this one was counted ("none": it
\* was not counted); run: its place among the text messages counted since
\* the counter last started at 1, as long as they fall within
\* anti_flood_time of that start (0 beyond).  again: the actor's last counted
\* text message before this one was classified as flood.  ticked: the clock
\* has advanced since the handler started.
H0 == [actor |-> "u1", kind |-> "none", role |-> "member",
       body |-> <<>>, text |-> FALSE, word |-> FALSE,
       match |-> None, media |-> "none", fwd |-> "none",
       base |-> NoRow, stale |-> FALSE, until |-> None, cls |-> "none", why |-> "none",
       w0 |-> 0, inc |-> FALSE, nban |-> 0, nmute |-> 0, nunres |-> 0, ndel |-> 0,
       res |-> "none", at |-> 0, nlog |-> 0, gap |-> "none", run |-> 0, again |-> FALSE,
       ticked |-> FALSE]

\* ------------------------------------------------------- sweeper locals
\* queue: expired_mutes still to process; base: the objects as loaded;
\* stale: the session has committed or rolled back; gone: rows deleted by
\* a handler since the job loaded them; ticked: the clock has advanced since
\* the job started.
S0 == [queue |-> <<>>, base |-> [a \in Members |-> NoRow], stale |-> FALSE, gone |-> {},
       ticked |-> FALSE]

\* ---------------------------------------------------------- history
\* counted[a]: warns added to the row of a since it was created.
\* unres[a]: successful Unrestrict calls since the mute of a was set.
\* viol[a]: violations of a (events a rule matched, /warn commands) since
\* the row was created, counted up to the lower of the two thresholds.
\* raced[a]: a handler and the job have been in progress on a together
\* since the handler started.
\* cleared[a]: the mute_until the job cleared since the handler started.
\* wstart[a], burst[a]: when the flood counter of a last started at 1, and
\* the text messages counted since then within anti_flood_time of that
\* start (0 once one fell beyond it).
\* flooded[a]: the last counted text message of a was classified as flood.
\* left[a]: a has not left the group ("no"), or the row deleted when a last
\* left had no warn and no mute ("clean") or had some ("marked").
G0 == [counted |-> [a \in Members |-> 0], unres |-> [a \in Members |-> 0],
       viol |-> [a \in Members |-> 0],
       raced |-> [a \in Members |-> FALSE], cleared |-> [a \in Members |-> None],
       wstart |-> [a \in Members |-> None], burst |-> [a \in Members |-> 0],
       flooded |-> [a \in Members |-> FALSE], left |-> [a \in Members |-> "no"]]

Min(x, y) == IF x < y THEN x ELSE y

Range(q) == {q[i] : i \in 1..Len(q)}

HandlerBusy(a) == hpc \notin {"idle", "done"} /\ h.actor = a
SweeperBusy(a) == spc # "idle" /\ a \in Range(sw.queue)

\* A filter that takes the mutes that have not expired yet.
ExpiredMuteReversed(r, t) ==
    r.exists /\ r.is_muted /\ r.mute_until # None /\ Val(r.mute_until) > t

\* GroupUser.is_muted == True AND GroupUser.mute_until < now
ExpiredMute(r, t) == r.exists /\ r.is_muted /\ r.mute_until # None /\ Val(r.mute_until) < t

\* session.delete(group_user); session.commit(): the row goes, and a job
\* that holds the object now holds a deleted one.
RowDeleted(a) == [rows EXCEPT ![a] = NoRow]
SweeperLoses(a) == IF SweeperBusy(a) THEN [sw EXCEPT !.gone = @ \cup {a}] ELSE sw

\* History kept along: a row deleted, a handler started, a rule matched.
GDel(gg, a) == [gg EXCEPT !.counted[a] = 0, !.unres[a] = 0, !.viol[a] = 0, !.cleared[a] = None,
                          !.wstart[a] = None, !.burst[a] = 0, !.flooded[a] = FALSE]
GStart(gg, a) == [gg EXCEPT !.raced[a] = SweeperBusy(a), !.cleared[a] = None]
MinThreshold == Min(group.mute_on_warn_count, group.ban_on_warn_count)
GViol(gg, a) == [gg EXCEPT !.viol[a] = Min(@ + 1, MinThreshold)]
GRun(gg, a, e) ==
    IF e.h.gap = "none" THEN gg
    ELSE [gg EXCEPT !.burst[a] = e.h.run,
                    !.wstart[a] = IF e.h.run = 1 THEN Some(UtcNow) ELSE @,
                    !.flooded[a] = e.h.cls = "flood"]
GSeen(gg, a, e) == GRun(IF e.pc = "m_viol_admin" THEN GViol(gg, a) ELSE gg, a, e)

Init ==
    /\ now = 0
    /\ tz \in TzOffsets
    /\ \E th \in ThresholdChoices :
          group = [anti_flood_enabled |-> TRUE, anti_flood_limit |-> FloodLimit,
                   anti_flood_time |-> FloodTime,
                   forbidden_words |-> Filtered,
                   mute_on_warn_count |-> th[1], ban_on_warn_count |-> th[2]]
                  @@ Locks({"photo"})
    /\ rows = [a \in Members |-> NoRow]
    /\ hpc = "idle"
    /\ h = H0
    /\ spc = "idle"
    /\ sw = S0
    /\ g = G0

\* The clock advances by one tick.  A handler or a run of the job is over
\* within seconds (every call it awaits returns or times out), so at most
\* one tick falls into it.
Tick ==
    /\ now < MaxTime
    /\ hpc \in {"idle", "done"} \/ ~h.ticked
    /\ spc = "idle" \/ ~sw.ticked
    /\ now' = now + 1
    /\ h' = IF hpc \in {"idle", "done"} THEN h ELSE [h EXCEPT !.ticked = TRUE]
    /\ sw' = IF spc = "idle" THEN sw ELSE [sw EXCEPT !.ticked = TRUE]
    /\ UNCHANGED <<tz, group, rows, hpc, spc, g>>

\* ------------------------------------------------- handle_all_messages
\* Sections 6.3 and 6.4 for the event of hh, on the database row db: the
\* anti-flood counter is advanced and committed, then the rules are tried in
\* order.  A message neither rule matched goes on to the media locks of
\* section 6.5 when it carries media.  The result is the row, the locals and
\* the place the handler continues at.
\* A window test that takes every earlier message to be in the interval.
InWindowAnyGap(r) == r.last_message_time # None

InWindow(r) ==
    r.last_message_time # None /\ (UtcNow - Val(r.last_message_time)) < group.anti_flood_time

\* A flood test that fires at the limit already.
IsFloodAtLimit(r) == r.message_count_in_interval >= group.anti_flood_limit

IsFlood(r) == r.message_count_in_interval > group.anti_flood_limit

\* The time from the last counted text message of the row to now, against
\* anti_flood_time.
Gap(r) ==
    IF r.last_message_time = None THEN "first"
    ELSE LET d == UtcNow - Val(r.last_message_time)
         IN IF d > group.anti_flood_time THEN "apart"
            ELSE IF d = group.anti_flood_time THEN "edge" ELSE "close"

\* The place of a counted message in the run of a: 1 when the counter starts
\* again, the next place while the run is within anti_flood_time of its
\* start, 0 beyond.
Run(a, gap) ==
    IF gap # "close" THEN 1
    ELSE IF /\ g.burst[a] >= 1 /\ g.wstart[a] # None
            /\ (UtcNow - Val(g.wstart[a])) < group.anti_flood_time
         THEN g.burst[a] + 1 ELSE 0

\* A counter that starts again at 1 after a message that exceeded the limit.
NextCountResets(r) ==
    IF InWindow(r) /\ ~IsFlood(r) THEN r.message_count_in_interval + 1 ELSE 1

\* message_count_in_interval += 1 within anti_flood_time of the last counted
\* message, else = 1.
NextCount(r) == IF InWindow(r) THEN r.message_count_in_interval + 1 ELSE 1

\* Rules tried with the forbidden words before the flood counter.
ClassifyWordFirst(isFlood, isWord) ==
    IF isWord THEN "word" ELSE IF isFlood THEN "flood" ELSE "none"

\* Section 6.3 comes before section 6.4, and each returns when its rule
\* matched.
Classify(isFlood, isWord) ==
    IF isFlood THEN "flood" ELSE IF isWord THEN "word" ELSE "none"

\* A section 6.3 that counts every message, with a text or without.
FloodOnAnyMessage(hh) == group.anti_flood_enabled

\* db_group.anti_flood_enabled and update.message.text
FloodOn(hh) == group.anti_flood_enabled /\ hh.text

Evaluate(hh, db) ==
    LET b == IF hh.stale THEN db ELSE hh.base
        floodOn == FloodOn(hh)
        obj == [b EXCEPT !.message_count_in_interval = NextCount(b),
                         !.last_message_time = Some(UtcNow)]
        db1 == IF floodOn THEN Commit(db, b, obj) ELSE db
        b1 == IF floodOn THEN db1 ELSE b
        isFlood == floodOn /\ IsFlood(b1)
        isWord == hh.text /\ hh.word
        gap == IF floodOn THEN Gap(b) ELSE "none"
    IN [row |-> db1,
        h |-> [hh EXCEPT !.base = b1, !.stale = FALSE,
                         !.gap = gap, !.run = IF floodOn THEN Run(hh.actor, gap) ELSE 0,
                         !.again = floodOn /\ g.flooded[hh.actor],
                         !.cls = Classify(isFlood, isWord)],
        pc |-> IF isFlood \/ isWord THEN "m_viol_admin"
               ELSE IF hh.media # "none" \/ hh.fwd # "none" THEN "m_media_admin" ELSE "done"]

\* Entry of the handler for a sender it does not take for an admin: the row
\* is fetched or created, a muted sender is dealt with, an un-muted one is
\* evaluated.  No message is taken from an actor with maxCount messages in
\* the running interval.
MsgFrom(a, role, body, media, fwd, maxCount) ==
    /\ hpc = "idle"
    /\ media \notin {"none", "link"} => body = <<>>
    /\ rows[a].warns < MaxWarns
    /\ InWindow(rows[a]) => rows[a].message_count_in_interval < maxCount
    /\ LET r == get_or_create_group_user(a)
           m == FirstMatch(group.forbidden_words, body)
           hh == [H0 EXCEPT !.actor = a, !.kind = "msg", !.role = role,
                            !.body = body, !.text = body # <<>>,
                            !.word = m # None, !.match = m,
                            !.media = media, !.fwd = fwd, !.base = r, !.w0 = r.warns]
           e == Evaluate(hh, r)
       IN IF r.is_muted
          THEN /\ rows' = [rows EXCEPT ![a] = r]
               /\ h' = hh
               /\ hpc' = IF r.mute_until # None /\ Val(r.mute_until) < UtcNow
                         THEN "m_unmute_admin" ELSE "m_muted"
               /\ g' = GStart(g, a)
          ELSE /\ rows' = [rows EXCEPT ![a] = e.row]
               /\ h' = e.h
               /\ hpc' = e.pc
               /\ g' = GSeen(GStart(g, a), a, e)
    /\ UNCHANGED <<now, tz, group, spc, sw>>

MsgStartUpTo(a, body, media, fwd, maxCount) == MsgFrom(a, "member", body, media, fwd, maxCount)

MsgStart(a, body, media, fwd) == MsgStartUpTo(a, body, media, fwd, MaxCount)

\* A message of the bot itself, of the bot's owner or of an admin of the
\* group.  The first two are told by their id.  For the third
\* is_user_admin_or_owner awaits get_chat_member: with its answer (known) the
\* handler returns, and when the call raises TelegramError the sender is
\* taken for a member.
Privileged == {"bot", "owner", "admin"}

PrivilegedMsg(a, role, known, body, media, fwd) ==
    IF role = "admin" /\ ~known
    THEN MsgFrom(a, role, body, media, fwd, MaxCount)
    ELSE /\ hpc = "idle"
         /\ media \notin {"none", "link"} => body = <<>>
         /\ hpc' = "done"
         /\ h' = [H0 EXCEPT !.actor = a, !.kind = "msg", !.role = role,
                            !.body = body, !.text = body # <<>>, !.media = media, !.fwd = fwd]
         /\ UNCHANGED <<now, tz, group, rows, spc, sw, g>>

\* A handler that goes on to the rules when the bot is no admin and the
\* message of the muted sender stays.
MsgMutedGoesOn(admin) ==
    /\ hpc = "m_muted"
    /\ LET e == Evaluate(h, rows[h.actor])
       IN IF admin
          THEN /\ hpc' = "done"
               /\ h' = [h EXCEPT !.ndel = 1]
               /\ UNCHANGED <<rows, g>>
          ELSE /\ rows' = [rows EXCEPT ![h.actor] = e.row]
               /\ h' = e.h
               /\ hpc' = e.pc
               /\ g' = GSeen(g, h.actor, e)
    /\ UNCHANGED <<now, tz, group, spc, sw>>

\* Sender still muted: is_bot_admin, then the message is deleted (or not);
\* the handler returns either way.
MsgMutedDiscard(admin) ==
    /\ hpc = "m_muted"
    /\ hpc' = "done"
    /\ h' = [h EXCEPT !.ndel = IF admin THEN 1 ELSE 0]
    /\ UNCHANGED <<now, tz, group, rows, spc, sw, g>>

\* Mute expired, is_bot_admin answered: the un-restrict call is issued, or
\* (bot not admin) the handler goes on to the rules with the row untouched.
MsgUnmuteAdmin(admin) ==
    /\ hpc = "m_unmute_admin"
    /\ LET e == Evaluate(h, rows[h.actor])
       IN IF admin
          THEN /\ hpc' = "m_unmute_call"
               /\ h' = [h EXCEPT !.nunres = 1]
               /\ UNCHANGED <<rows, g>>
          ELSE /\ rows' = [rows EXCEPT ![h.actor] = e.row]
               /\ h' = e.h
               /\ hpc' = e.pc
               /\ g' = GSeen(g, h.actor, e)
    /\ UNCHANGED <<now, tz, group, spc, sw>>

\* The un-restrict call returned: is_muted and mute_until are cleared and
\* committed, after success and in the except branch alike.  After success
\* the handler awaits reply_text; after a failure it goes on to the rules.
MsgUnmuteRet(ok) ==
    /\ hpc = "m_unmute_call"
    /\ LET a == h.actor
           obj == [h.base EXCEPT !.is_muted = FALSE, !.mute_until = None]
           db1 == Commit(rows[a], h.base, obj)
           hh == [h EXCEPT !.stale = TRUE, !.res = IF ok THEN "unmute_ok" ELSE "unmute_fail"]
           e == Evaluate(hh, db1)
       IN IF ok
          THEN /\ rows' = [rows EXCEPT ![a] = db1]
               /\ h' = hh
               /\ hpc' = "m_unmute_reply"
               /\ g' = [g EXCEPT !.unres[a] = IF @ < 2 THEN @ + 1 ELSE @]
          ELSE /\ rows' = [rows EXCEPT ![a] = e.row]
               /\ h' = e.h
               /\ hpc' = e.pc
               /\ g' = GSeen(g, a, e)
    /\ UNCHANGED <<now, tz, group, spc, sw>>

\* reply_text returned and the un-mute is logged (or it raised: the except
\* branch clears again, which changes nothing); the rules are evaluated on
\* the reloaded row.
MsgUnmuteReply(ok) ==
    /\ hpc = "m_unmute_reply"
    /\ LET e == Evaluate([h EXCEPT !.nlog = IF ok THEN @ + 1 ELSE @], rows[h.actor])
       IN /\ rows' = [rows EXCEPT ![h.actor] = e.row]
          /\ h' = e.h
          /\ hpc' = e.pc
          /\ g' = GSeen(g, h.actor, e)
    /\ UNCHANGED <<now, tz, group, spc, sw>>

\* A rule matched, is_bot_admin answered: the message delete is issued, or
\* (bot not admin) the handler returns.
MsgViolAdmin(admin) ==
    /\ hpc = "m_viol_admin"
    /\ hpc' = IF admin THEN "m_viol_del" ELSE "done"
    /\ h' = [h EXCEPT !.ndel = IF admin THEN 1 ELSE 0]
    /\ UNCHANGED <<now, tz, group, rows, spc, sw, g>>

\* update.message.delete() returned: after success warns += 1 is committed
\* and the warning notice is sent; an exception ends the handler.
MsgViolDelete(ok) ==
    /\ hpc = "m_viol_del"
    /\ LET a == h.actor
           obj == [h.base EXCEPT !.warns = @ + 1]
           db1 == Commit(rows[a], h.base, obj)
       IN IF ok
          THEN /\ rows' = [rows EXCEPT ![a] = db1]
               /\ h' = [h EXCEPT !.base = db1, !.inc = TRUE]
               /\ hpc' = "m_viol_notify"
               /\ g' = [g EXCEPT !.counted[a] = @ + 1]
          ELSE /\ hpc' = "done"
               /\ h' = [h EXCEPT !.res = "delete_fail"]
               /\ UNCHANGED <<rows, g>>
    /\ UNCHANGED <<now, tz, group, spc, sw>>

\* A threshold check that tries the mute threshold first.
EscalateMuteFirst(hh, banpc, mutepc) ==
    IF hh.base.warns >= group.mute_on_warn_count
    THEN [h |-> [hh EXCEPT !.nmute = @ + 1, !.until = Some(LocalNow + MuteDuration),
                          !.at = UtcNow],
          pc |-> mutepc]
    ELSE IF hh.base.warns >= group.ban_on_warn_count
         THEN [h |-> [hh EXCEPT !.nban = @ + 1], pc |-> banpc]
         ELSE [h |-> hh, pc |-> "done"]

\* The threshold check after a warn: ban first, else mute, else nothing.
\* The call is issued here; until_date is taken from the local clock.
Escalate(hh, banpc, mutepc) ==
    IF hh.base.warns >= group.ban_on_warn_count
    THEN [h |-> [hh EXCEPT !.nban = @ + 1], pc |-> banpc]
    ELSE IF hh.base.warns >= group.mute_on_warn_count
         THEN [h |-> [hh EXCEPT !.nmute = @ + 1, !.until = Some(LocalNow + MuteDuration),
                               !.at = UtcNow],
               pc |-> mutepc]
         ELSE [h |-> hh, pc |-> "done"]

\* send_message (the warning notice) returned: after success the warn is
\* logged and the thresholds are checked; an exception ends the handler.
MsgViolNotify(ok) ==
    /\ hpc = "m_viol_notify"
    /\ LET e == Escalate([h EXCEPT !.nlog = @ + 1], "m_ban_call", "m_mute_call")
       IN IF ok
          THEN h' = e.h /\ hpc' = e.pc
          ELSE h' = [h EXCEPT !.res = "notify_fail"] /\ hpc' = "done"
    /\ UNCHANGED <<now, tz, group, rows, spc, sw, g>>

\* A handler that deletes the row whatever the Ban call returned.
BanReturnDeletesAnyway(ok, told) ==
    /\ hpc' = "done"
    /\ h' = [h EXCEPT !.res = IF ok THEN "ban_ok" ELSE "ban_fail",
                      !.nlog = IF ok /\ told THEN @ + 1 ELSE @]
    /\ rows' = RowDeleted(h.actor)
    /\ sw' = SweeperLoses(h.actor)
    /\ g' = GDel(g, h.actor)
    /\ UNCHANGED <<now, tz, group, spc>>

\* ban_chat_member returned: after success the row is deleted, and the ban
\* is logged once the notice that precedes the log is out (told).
BanReturn(ok, told) ==
    /\ hpc' = "done"
    /\ h' = [h EXCEPT !.res = IF ok THEN "ban_ok" ELSE "ban_fail",
                      !.nlog = IF ok /\ told THEN @ + 1 ELSE @]
    /\ IF ok
       THEN /\ rows' = RowDeleted(h.actor)
            /\ sw' = SweeperLoses(h.actor)
            /\ g' = GDel(g, h.actor)
       ELSE UNCHANGED <<rows, sw, g>>
    /\ UNCHANGED <<now, tz, group, spc>>

\* A handler that marks the actor muted whatever the Restrict call returned.
MuteReturnMarksAnyway(ok, told) ==
    /\ hpc' = "done"
    /\ h' = [h EXCEPT !.res = IF ok THEN "mute_ok" ELSE "mute_fail",
                      !.nlog = IF ok /\ told THEN @ + 1 ELSE @]
    /\ LET a == h.actor
           obj == [h.base EXCEPT !.is_muted = TRUE, !.mute_until = h.until]
       IN /\ rows' = [rows EXCEPT ![a] = Commit(rows[a], h.base, obj)]
          /\ g' = [g EXCEPT !.unres[a] = 0]
    /\ UNCHANGED <<now, tz, group, spc, sw>>

\* restrict_chat_member returned: after success is_muted and mute_until are
\* set and committed, and the mute is logged once the notice that precedes
\* the log is out (told).
MuteReturn(ok, told) ==
    /\ hpc' = "done"
    /\ h' = [h EXCEPT !.res = IF ok THEN "mute_ok" ELSE "mute_fail",
                      !.nlog = IF ok /\ told THEN @ + 1 ELSE @]
    /\ LET a == h.actor
           obj == [h.base EXCEPT !.is_muted = TRUE, !.mute_until = h.until]
       IN IF ok
          THEN /\ rows' = [rows EXCEPT ![a] = Commit(rows[a], h.base, obj)]
               /\ g' = [g EXCEPT !.unres[a] = 0]
          ELSE UNCHANGED <<rows, g>>
    /\ UNCHANGED <<now, tz, group, spc, sw>>

\* In the handler send_message precedes the log; a failed notice ends the
\* handler with the ban or mute done and not logged.
MsgBanRet(ok, told) == hpc = "m_ban_call" /\ BanReturn(ok, told)

MsgMuteRet(ok, told) == hpc = "m_mute_call" /\ MuteReturn(ok, told)

\* The media locks of section 6.5: the if / elif chain over the lock_*
\* columns and the content of the message, in its order; the result is the
\* branch taken ("none": no branch).  In the forward branch `and` binds
\* before `or`.
MediaBranch(hh) ==
    IF group.lock_photos /\ hh.media = "photo" THEN "photo"
    ELSE IF group.lock_videos /\ hh.media = "video" THEN "video"
    ELSE IF group.lock_links /\ hh.media = "link" THEN "link"
    ELSE IF (group.lock_forwards /\ hh.fwd = "user") \/ hh.fwd = "chat" THEN "forward"
    ELSE IF group.lock_stickers /\ hh.media = "sticker" THEN "sticker"
    ELSE IF group.lock_gifs /\ hh.media = "gif" THEN "gif"
    ELSE IF group.lock_voice /\ hh.media = "voice" THEN "voice"
    ELSE IF group.lock_documents /\ hh.media = "document" THEN "document"
    ELSE IF group.lock_videonotes /\ hh.media = "videonote" THEN "videonote"
    ELSE IF group.lock_polls /\ hh.media = "poll" THEN "poll"
    ELSE IF group.lock_games /\ hh.media = "game" THEN "game"
    ELSE "none"

LockedMedia(hh) == MediaBranch(hh) # "none"

\* is_bot_admin answered for section 6.5: the delete of a message with locked
\* media is issued, or the handler goes on to its end.
MsgMediaAdmin(admin) ==
    /\ hpc = "m_media_admin"
    /\ IF admin /\ LockedMedia(h)
       THEN hpc' = "m_media_del" /\ h' = [h EXCEPT !.cls = "media", !.why = MediaBranch(h), !.ndel = 1]
       ELSE hpc' = "done" /\ h' = h
    /\ UNCHANGED <<now, tz, group, rows, spc, sw, g>>

\* update.message.delete() returned: after success the deletion is logged
\* and the handler returns; an exception ends the handler.  warns stays.
MsgMediaDelete(ok) ==
    /\ hpc = "m_media_del"
    /\ hpc' = "done"
    /\ h' = [h EXCEPT !.res = IF ok THEN "media_deleted" ELSE "delete_fail",
                      !.nlog = IF ok THEN @ + 1 ELSE @]
    /\ UNCHANGED <<now, tz, group, rows, spc, sw, g>>

\* ---------------------------------------------------------- warn_command
\* The target is known and no admin: warns += 1 is committed, the action is
\* logged, the thresholds are checked.
WarnStart(a) ==
    /\ hpc = "idle"
    /\ rows[a].warns < MaxWarns
    /\ LET r == get_or_create_group_user(a)
           db1 == Commit(r, r, [r EXCEPT !.warns = @ + 1])
           hh == [H0 EXCEPT !.actor = a, !.kind = "warn", !.base = db1, !.w0 = r.warns,
                            !.inc = TRUE, !.nlog = 1]
           e == Escalate(hh, "w_ban_call", "w_mute_call")
       IN /\ rows' = [rows EXCEPT ![a] = db1]
          /\ h' = e.h
          /\ hpc' = e.pc
    /\ g' = [GViol(GStart(g, a), a) EXCEPT !.counted[a] = @ + 1]
    /\ UNCHANGED <<now, tz, group, spc, sw>>

\* In /warn the log follows the commit at once.
WarnBanRet(ok) == hpc = "w_ban_call" /\ BanReturn(ok, TRUE)

WarnMuteRet(ok) == hpc = "w_mute_call" /\ MuteReturn(ok, TRUE)

\* ----------------------------------------------------------- ban_command
BanStart(a) ==
    /\ hpc = "idle"
    /\ hpc' = "b_call"
    /\ h' = [H0 EXCEPT !.actor = a, !.kind = "ban", !.base = rows[a], !.w0 = rows[a].warns,
                       !.nban = 1]
    /\ g' = GStart(g, a)
    /\ UNCHANGED <<now, tz, group, rows, spc, sw>>

\* ban_chat_member returned: after success the user's info is fetched.
BanRet(ok) ==
    /\ hpc = "b_call"
    /\ hpc' = IF ok THEN "b_info" ELSE "done"
    /\ h' = [h EXCEPT !.res = IF ok THEN "ban_ok" ELSE "ban_fail"]
    /\ UNCHANGED <<now, tz, group, rows, spc, sw, g>>

\* get_user_info_from_telegram returned: with the info the row, if any, is
\* deleted, and the ban is logged once reply_text is out (told); with None
\* get_or_create_user raises and the row stays.
BanInfo(found, told) ==
    /\ hpc = "b_info"
    /\ hpc' = "done"
    /\ IF found /\ rows[h.actor].exists
       THEN /\ rows' = RowDeleted(h.actor)
            /\ sw' = SweeperLoses(h.actor)
            /\ g' = GDel(g, h.actor)
       ELSE UNCHANGED <<rows, sw, g>>
    /\ h' = [h EXCEPT !.res = IF found THEN "ban_ok" ELSE "ban_noinfo",
                      !.nlog = IF found /\ told THEN @ + 1 ELSE @]
    /\ UNCHANGED <<now, tz, group, spc>>

\* ---------------------------------------------------------- mute_command
\* The target is no admin: until_date is now() + the duration given, or None
\* without one, and the Restrict call is issued.
MuteStart(a, timed) ==
    /\ hpc = "idle"
    /\ hpc' = "mu_call"
    /\ h' = [H0 EXCEPT !.actor = a, !.kind = "mute", !.base = rows[a], !.w0 = rows[a].warns,
                       !.nmute = 1, !.at = UtcNow,
                       !.until = IF timed THEN Some(LocalNow + MuteDuration) ELSE None]
    /\ g' = GStart(g, a)
    /\ UNCHANGED <<now, tz, group, rows, spc, sw>>

\* A /mute that goes on to the database after a failed Restrict call.
MuteCmdRetGoesOn(ok) ==
    /\ hpc = "mu_call"
    /\ hpc' = "mu_info"
    /\ h' = [h EXCEPT !.res = IF ok THEN "restrict_ok" ELSE "mutecmd_fail"]
    /\ UNCHANGED <<now, tz, group, rows, spc, sw, g>>

\* restrict_chat_member returned: after success the user's info is fetched,
\* an exception is reported to the admin and ends the command.
MuteCmdRet(ok) ==
    /\ hpc = "mu_call"
    /\ hpc' = IF ok THEN "mu_info" ELSE "done"
    /\ h' = [h EXCEPT !.res = IF ok THEN "restrict_ok" ELSE "mutecmd_fail"]
    /\ UNCHANGED <<now, tz, group, rows, spc, sw, g>>

\* get_user_info_from_telegram returned: with the info the row is fetched or
\* created, is_muted and mute_until = until_date are set and committed, and
\* the mute is logged once reply_text is out (told); with None
\* get_or_create_user raises and the row stays as it was.
MuteInfo(found, told) ==
    /\ hpc = "mu_info"
    /\ hpc' = "done"
    /\ LET a == h.actor
           r == get_or_create_group_user(a)
           obj == [r EXCEPT !.is_muted = TRUE, !.mute_until = h.until]
       IN IF found
          THEN /\ rows' = [rows EXCEPT ![a] = Commit(r, r, obj)]
               /\ g' = [g EXCEPT !.unres[a] = 0]
          ELSE UNCHANGED <<rows, g>>
    /\ h' = [h EXCEPT !.res = IF found THEN "mutecmd_ok" ELSE "mutecmd_noinfo",
                      !.nlog = IF found /\ told THEN @ + 1 ELSE @]
    /\ UNCHANGED <<now, tz, group, spc, sw>>

\* -------------------------------------------------------- unmute_command
\* The un-restrict call with the full permissions is issued for the target,
\* whatever its row says.
UnmuteStart(a) ==
    /\ hpc = "idle"
    /\ hpc' = "um_call"
    /\ h' = [H0 EXCEPT !.actor = a, !.kind = "unmute", !.base = rows[a], !.w0 = rows[a].warns,
                       !.nunres = 1]
    /\ g' = GStart(g, a)
    /\ UNCHANGED <<now, tz, group, rows, spc, sw>>

\* restrict_chat_member returned: after success the user's info is fetched,
\* an exception is reported to the admin and ends the command.
UnmuteCmdRet(ok) ==
    /\ hpc = "um_call"
    /\ hpc' = IF ok THEN "um_info" ELSE "done"
    /\ h' = [h EXCEPT !.res = IF ok THEN "unrestrict_ok" ELSE "unmutecmd_fail"]
    /\ g' = [g EXCEPT !.unres[h.actor] = IF ok /\ @ < 2 THEN @ + 1 ELSE @]
    /\ UNCHANGED <<now, tz, group, rows, spc, sw>>

\* get_user_info_from_telegram returned: with the info the row is queried
\* and, if there is one, is_muted and mute_until are cleared and committed;
\* the un-mute is logged once reply_text is out (told).  With None
\* get_or_create_user raises and the row stays as it was.
UnmuteInfo(found, told) ==
    /\ hpc = "um_info"
    /\ hpc' = "done"
    /\ LET a == h.actor
           r == rows[a]
           obj == [r EXCEPT !.is_muted = FALSE, !.mute_until = None]
       IN rows' = IF found /\ r.exists THEN [rows EXCEPT ![a] = Commit(r, r, obj)] ELSE rows
    /\ h' = [h EXCEPT !.res = IF found THEN "unmutecmd_ok" ELSE "unmutecmd_noinfo",
                      !.nlog = IF found /\ told THEN @ + 1 ELSE @]
    /\ UNCHANGED <<now, tz, group, spc, sw, g>>

\* ---------------------------------------------- handle_left_chat_members
\* A handler that keeps the row of the member who left.
LeftKeepsRow(a) ==
    /\ hpc = "idle"
    /\ hpc' = "done"
    /\ h' = [H0 EXCEPT !.actor = a, !.kind = "left", !.base = rows[a], !.w0 = rows[a].warns]
    /\ g' = GStart(g, a)
    /\ UNCHANGED <<now, tz, group, rows, spc, sw>>

\* A member other than the bot left: the row, if any, is deleted and the
\* delete committed; the farewell follows.
Left(a) ==
    /\ hpc = "idle"
    /\ hpc' = "done"
    /\ h' = [H0 EXCEPT !.actor = a, !.kind = "left", !.base = rows[a], !.w0 = rows[a].warns]
    /\ rows' = RowDeleted(a)
    /\ sw' = IF rows[a].exists THEN SweeperLoses(a) ELSE sw
    /\ g' = [GDel(GStart(g, a), a) EXCEPT
               !.left[a] = IF rows[a].warns > 0 \/ rows[a].is_muted THEN "marked" ELSE "clean"]
    /\ UNCHANGED <<now, tz, group, spc>>

\* ----------------------------------------------- handle_new_chat_members
\* A member other than the bot joined: get_or_create_group_user gives the
\* row there is, or creates one with the column defaults; the welcome
\* follows.
Joined(a) ==
    /\ hpc = "idle"
    /\ hpc' = "done"
    /\ h' = [H0 EXCEPT !.actor = a, !.kind = "join", !.base = rows[a], !.w0 = rows[a].warns]
    /\ rows' = [rows EXCEPT ![a] = get_or_create_group_user(a)]
    /\ g' = GStart(g, a)
    /\ UNCHANGED <<now, tz, group, spc, sw>>

\* -------------------------------------------------------- unwarn_command
UnwarnStart(a) ==
    /\ hpc = "idle"
    /\ hpc' = "uw_info"
    /\ h' = [H0 EXCEPT !.actor = a, !.kind = "unwarn"]
    /\ g' = GStart(g, a)
    /\ UNCHANGED <<now, tz, group, rows, spc, sw>>

\* An /unwarn that takes a warn off every row it finds.
UnwarnInfoUnguarded(found, told) ==
    /\ hpc = "uw_info"
    /\ hpc' = "done"
    /\ LET a == h.actor
           r == rows[a]
           hit == found /\ r.exists
       IN /\ rows' = IF hit THEN [rows EXCEPT ![a] = Commit(r, r, [r EXCEPT !.warns = @ - 1])]
                     ELSE rows
          /\ g' = IF hit THEN [g EXCEPT !.counted[a] = @ - 1] ELSE g
          /\ h' = [h EXCEPT !.base = r, !.w0 = r.warns,
                            !.res = IF hit THEN "unwarn_ok" ELSE "unwarn_noinfo",
                            !.nlog = IF hit /\ told THEN @ + 1 ELSE @]
    /\ UNCHANGED <<now, tz, group, spc, sw>>

\* get_user_info_from_telegram returned: without the info the command ends;
\* with it the row is queried, and a row with warns > 0 loses one warn, which
\* is committed and, once reply_text is out (told), logged.
UnwarnInfo(found, told) ==
    /\ hpc = "uw_info"
    /\ hpc' = "done"
    /\ LET a == h.actor
           r == rows[a]
           hit == found /\ r.exists /\ r.warns > 0
       IN /\ rows' = IF hit THEN [rows EXCEPT ![a] = Commit(r, r, [r EXCEPT !.warns = @ - 1])]
                     ELSE rows
          /\ g' = IF hit THEN [g EXCEPT !.counted[a] = @ - 1] ELSE g
          /\ h' = [h EXCEPT !.base = r, !.w0 = r.warns,
                            !.res = IF hit THEN "unwarn_ok"
                                    ELSE IF ~found THEN "unwarn_noinfo"
                                    ELSE IF r.exists THEN "unwarn_none" ELSE "unwarn_norow",
                            !.nlog = IF hit /\ told THEN @ + 1 ELSE @]
    /\ UNCHANGED <<now, tz, group, spc, sw>>

\* ------------------------------------------------------ add_filter_command
\* /addfilter word: the first argument, lower-cased, goes to
\* add_forbidden_word.
AddFilter(word) ==
    /\ hpc = "idle"
    /\ Len(group.forbidden_words) < MaxWords
    /\ group' = [group EXCEPT !.forbidden_words = add_forbidden_word(@, LowerStr(word))]
    /\ UNCHANGED <<now, tz, rows, hpc, h, spc, sw, g>>

\* ------------------------------------------------ settings_callback_handler
\* The buttons of the settings panel.  Each one writes columns of the Group
\* row through update_group_settings and nothing else; the handler is over
\* once its answer is out.
Settings(new) ==
    /\ hpc = "idle"
    /\ new # group
    /\ group' = new
    /\ hpc' = "done"
    /\ h' = [H0 EXCEPT !.kind = "settings"]
    /\ UNCHANGED <<now, tz, rows, spc, sw, g>>

\* settings_toggle_anti_flood
ToggleAntiFlood == Settings([group EXCEPT !.anti_flood_enabled = ~@])

\* set_flood_<limit>_<time>
SetFlood(limit, time) ==
    Settings([group EXCEPT !.anti_flood_limit = limit, !.anti_flood_time = time])

\* A change of the mute threshold that mutes at once every actor at or above
\* the new one.
SetMuteWarnAtOnce(count) ==
    /\ hpc = "idle"
    /\ count # group.mute_on_warn_count
    /\ group' = [group EXCEPT !.mute_on_warn_count = count]
    /\ rows' = [a \in Members |->
                  IF rows[a].exists /\ rows[a].warns >= count
                  THEN [rows[a] EXCEPT !.is_muted = TRUE,
                                       !.mute_until = Some(LocalNow + MuteDuration)]
                  ELSE rows[a]]
    /\ hpc' = "done"
    /\ h' = [H0 EXCEPT !.kind = "settings"]
    /\ UNCHANGED <<now, tz, spc, sw, g>>

\* set_mute_warn_<count>
SetMuteWarn(count) == Settings([group EXCEPT !.mute_on_warn_count = count])

\* set_ban_warn_<count>
SetBanWarn(count) == Settings([group EXCEPT !.ban_on_warn_count = count])

\* toggle_lock_<kind>: the column media_field_map has for the kind.
LockField(k) == CHOOSE f \in DOMAIN Locks({k}) : Locks({k})[f]

ToggleLock(k) == Settings([group EXCEPT ![LockField(k)] = ~@])

\* finally: session.close(); the handler is over.
HandlerReturn ==
    /\ hpc = "done"
    /\ hpc' = "idle"
    /\ h' = H0
    /\ UNCHANGED <<now, tz, group, rows, spc, sw, g>>

\* --------------------------------------------------- check_expired_mutes
\* The orders in which a query can return the rows of S.
Orders(S) == {q \in [1..Cardinality(S) -> S] : Range(q) = S}

\* The job starts: the rows with is_muted and mute_until < utcnow() are
\* loaded, and is_bot_admin is awaited for the first.
SweepStart ==
    /\ spc = "idle"
    /\ LET exp == {a \in Members : ExpiredMute(rows[a], UtcNow)}
       IN /\ exp # {}
          /\ \E q \in Orders(exp) :
                sw' = [queue |-> q,
                       base |-> [a \in Members |-> IF a \in exp THEN rows[a] ELSE NoRow],
                       stale |-> FALSE, gone |-> {}, ticked |-> FALSE]
          /\ g' = [g EXCEPT !.raced = [a \in Members |-> @[a] \/ (a \in exp /\ HandlerBusy(a))]]
    /\ spc' = "admin"
    /\ UNCHANGED <<now, tz, group, rows, hpc, h>>

\* The loop goes to its next row.  After a commit or rollback the objects
\* are expired, and reading group_user.group_id reloads the row; a row that
\* is gone raises ObjectDeletedError, which ends the job.  After the last
\* row the job commits and closes its session.
SweepNext(s1, db, reuse) ==
    LET q == Tail(s1.queue)
        a2 == Head(q)
        there == db[a2].exists /\ (a2 \notin s1.gone \/ reuse)
    IN IF q = <<>> THEN [pc |-> "idle", sw |-> S0]
       ELSE IF ~s1.stale THEN [pc |-> "admin", sw |-> [s1 EXCEPT !.queue = q]]
       ELSE IF there THEN [pc |-> "admin", sw |-> [s1 EXCEPT !.queue = q, !.base[a2] = db[a2]]]
       ELSE [pc |-> "idle", sw |-> S0]

\* is_bot_admin answered: the un-restrict call is issued, or (bot not
\* admin) the row is skipped.
SweepAdmin(admin, reuse) ==
    /\ spc = "admin"
    /\ LET n == SweepNext(sw, rows, reuse)
       IN IF admin
          THEN spc' = "call" /\ sw' = sw
          ELSE spc' = n.pc /\ sw' = n.sw
    /\ UNCHANGED <<now, tz, group, rows, hpc, h, g>>

\* The un-restrict call returned.  After success and after BadRequest
\* is_muted and mute_until are cleared and committed (an UPDATE that finds
\* no row raises StaleDataError: in the try block it is rolled back and the
\* loop goes on, in the except branch of BadRequest it leaves the loop and
\* ends the job); any other TelegramError leaves the row.  A row deleted and
\* created again since the job read it is hit by the UPDATE when the
\* database gave it the same id (reuse).
SweepRet(res, reuse) ==
    /\ spc = "call"
    /\ LET a == Head(sw.queue)
           b == sw.base[a]
           obj == [b EXCEPT !.is_muted = FALSE, !.mute_until = None]
           there == rows[a].exists /\ (a \notin sw.gone \/ reuse)
           db1 == IF res # "error" /\ there
                  THEN [rows EXCEPT ![a] = Commit(rows[a], b, obj)] ELSE rows
           s1 == IF res # "error" THEN [sw EXCEPT !.stale = TRUE] ELSE sw
           n == IF res = "badrequest" /\ ~there THEN [pc |-> "idle", sw |-> S0]
                ELSE SweepNext(s1, db1, reuse)
       IN /\ rows' = db1
          /\ spc' = n.pc
          /\ sw' = n.sw
          /\ g' = [g EXCEPT !.unres[a] = IF res = "ok" /\ @ < 2 THEN @ + 1 ELSE @,
                             !.cleared[a] = IF db1 # rows /\ HandlerBusy(a)
                                            THEN b.mute_until ELSE @]
    /\ UNCHANGED <<now, tz, group, hpc, h>>

\* ------------------------------------------------------------------ Next
Next ==
    \/ Tick
    \/ \E a \in Actors, body \in Bodies, media \in MediaKinds : MsgStart(a, body, media, "none")
    \/ \E admin \in BOOLEAN : MsgMutedDiscard(admin)
    \/ \E admin \in BOOLEAN : MsgUnmuteAdmin(admin)
    \/ \E ok \in BOOLEAN : MsgUnmuteRet(ok)
    \/ \E ok \in BOOLEAN : MsgUnmuteReply(ok)
    \/ \E admin \in BOOLEAN : MsgViolAdmin(admin)
    \/ \E ok \in BOOLEAN : MsgViolDelete(ok)
    \/ \E ok \in BOOLEAN : MsgViolNotify(ok)
    \/ \E ok \in BOOLEAN, told \in BOOLEAN : MsgBanRet(ok, told)
    \/ \E ok \in BOOLEAN, told \in BOOLEAN : MsgMuteRet(ok, told)
    \/ \E admin \in BOOLEAN : MsgMediaAdmin(admin)
    \/ \E ok \in BOOLEAN : MsgMediaDelete(ok)
    \/ \E a \in Actors : WarnStart(a)
    \/ \E ok \in BOOLEAN : WarnBanRet(ok)
    \/ \E ok \in BOOLEAN : WarnMuteRet(ok)
    \/ \E a \in Actors : BanStart(a)
    \/ \E ok \in BOOLEAN : BanRet(ok)
    \/ \E found \in BOOLEAN, told \in BOOLEAN : BanInfo(found, told)
    \/ HandlerReturn
    \/ SweepStart
    \/ \E admin \in BOOLEAN, reuse \in BOOLEAN : SweepAdmin(admin, reuse)
    \/ \E res \in {"ok", "badrequest", "error"}, reuse \in BOOLEAN : SweepRet(res, reuse)

Spec == Init /\ [][Next]_vars

\* ------------------------------------------------------- admin commands
\* The engine together with the admin commands, in a group whose thresholds
\* were set to 2 and 3 and whose anti-flood was switched off in the settings.
AdminThresholds == <<2, 3>>

InitAdmin ==
    /\ now = 0
    /\ tz \in TzOffsets
    /\ group = [anti_flood_enabled |-> FALSE, anti_flood_limit |-> FloodLimit,
                anti_flood_time |-> FloodTime,
                forbidden_words |-> Filtered,
                mute_on_warn_count |-> AdminThresholds[1],
                ban_on_warn_count |-> AdminThresholds[2]] @@ Locks({"photo"})
    /\ rows = [a \in Members |-> NoRow]
    /\ hpc = "idle"
    /\ h = H0
    /\ spc = "idle"
    /\ sw = S0
    /\ g = G0

NextAdmin ==
    \/ Next
    \/ \E a \in Actors, timed \in BOOLEAN : MuteStart(a, timed)
    \/ \E ok \in BOOLEAN : MuteCmdRet(ok)
    \/ \E found \in BOOLEAN, told \in BOOLEAN : MuteInfo(found, told)
    \/ \E a \in Actors : UnwarnStart(a)
    \/ \E found \in BOOLEAN, told \in BOOLEAN : UnwarnInfo(found, told)

SpecAdmin == InitAdmin /\ [][NextAdmin]_vars

\* ------------------------------------------------------- forbidden words
\* The forbidden-word filter on its own: a group with the thresholds 2 and 3
\* and anti-flood switched off, whose admins add words to the list, and
\* text messages of every content.
InitWords ==
    /\ now = 0
    /\ tz = 0
    /\ group = [anti_flood_enabled |-> FALSE, anti_flood_limit |-> FloodLimit,
                anti_flood_time |-> FloodTime,
                forbidden_words |-> <<>>,
                mute_on_warn_count |-> AdminThresholds[1],
                ban_on_warn_count |-> AdminThresholds[2]] @@ Locks({"photo"})
    /\ rows = [a \in Members |-> NoRow]
    /\ hpc = "idle"
    /\ h = H0
    /\ spc = "idle"
    /\ sw = S0
    /\ g = G0

NextWords ==
    \/ \E word \in Strings(MaxWordLen) : AddFilter(word)
    \/ \E a \in Actors, body \in Strings(MaxTextLen) : MsgStart(a, body, "none", "none")
    \/ \E admin \in BOOLEAN : MsgMutedDiscard(admin)
    \/ \E admin \in BOOLEAN : MsgViolAdmin(admin)
    \/ \E ok \in BOOLEAN : MsgViolDelete(ok)
    \/ \E ok \in BOOLEAN : MsgViolNotify(ok)
    \/ \E ok \in BOOLEAN, told \in BOOLEAN : MsgBanRet(ok, told)
    \/ \E ok \in BOOLEAN, told \in BOOLEAN : MsgMuteRet(ok, told)
    \/ HandlerReturn

SpecWords == InitWords /\ [][NextWords]_vars

\* ----------------------------------------------------------- media locks
\* The three rules together: groups with no lock, with every lock, with
\* every lock but one and with the photo lock alone, anti-flood on or off,
\* and messages of every content and origin.
LockChoices ==
    {{}, LockNames, {"photo"}} \cup {LockNames \ {k} : k \in LockNames}

InitMedia ==
    /\ now = 0
    /\ tz = 0
    /\ \E flood \in BOOLEAN, S \in LockChoices :
          group = [anti_flood_enabled |-> flood, anti_flood_limit |-> FloodLimit,
                   anti_flood_time |-> FloodTime,
                   forbidden_words |-> Filtered,
                   mute_on_warn_count |-> AdminThresholds[1],
                   ban_on_warn_count |-> AdminThresholds[2]] @@ Locks(S)
    /\ rows = [a \in Members |-> NoRow]
    /\ hpc = "idle"
    /\ h = H0
    /\ spc = "idle"
    /\ sw = S0
    /\ g = G0

NextMedia ==
    \/ \E a \in Actors, body \in Bodies, media \in ContentKinds, fwd \in Origins :
          MsgStart(a, body, media, fwd)
    \/ \E admin \in BOOLEAN : MsgMutedDiscard(admin)
    \/ \E admin \in BOOLEAN : MsgViolAdmin(admin)
    \/ \E ok \in BOOLEAN : MsgViolDelete(ok)
    \/ \E ok \in BOOLEAN : MsgViolNotify(ok)
    \/ \E ok \in BOOLEAN, told \in BOOLEAN : MsgBanRet(ok, told)
    \/ \E ok \in BOOLEAN, told \in BOOLEAN : MsgMuteRet(ok, told)
    \/ \E admin \in BOOLEAN : MsgMediaAdmin(admin)
    \/ \E ok \in BOOLEAN : MsgMediaDelete(ok)
    \/ HandlerReturn

SpecMedia == InitMedia /\ [][NextMedia]_vars

\* -------------------------------------------------------------- settings
\* The engine without its clock, in a group that starts from the column
\* defaults with one word on its list, and whose admins change the settings
\* between the events: the thresholds, the anti-flood switch and limit, the
\* photo lock, the word list.
MuteWarnChoices == {2, 3, 4, 5}
BanWarnChoices == {c \in {3, 5, 7, 10} : c <= MaxWarns}
FloodChoices == {<<FloodLimit, FloodTime>>, <<FloodLimit + 1, FloodTime>>}

InitPolicy ==
    /\ now = 0
    /\ tz = 0
    /\ group = [anti_flood_enabled |-> TRUE, anti_flood_limit |-> FloodLimit,
                anti_flood_time |-> FloodTime,
                forbidden_words |-> Filtered,
                mute_on_warn_count |-> DefaultMuteOnWarn,
                ban_on_warn_count |-> DefaultBanOnWarn] @@ Locks({})
    /\ rows = [a \in Members |-> NoRow]
    /\ hpc = "idle"
    /\ h = H0
    /\ spc = "idle"
    /\ sw = S0
    /\ g = G0

NextPolicy ==
    \/ ToggleAntiFlood
    \/ \E c \in FloodChoices : SetFlood(c[1], c[2])
    \/ \E count \in MuteWarnChoices : SetMuteWarn(count)
    \/ \E count \in BanWarnChoices : SetBanWarn(count)
    \/ ToggleLock("photo")
    \/ AddFilter(<<"b">>)
    \/ \E a \in Actors, body \in Bodies, media \in MediaKinds : MsgStart(a, body, media, "none")
    \/ \E admin \in BOOLEAN : MsgMutedDiscard(admin)
    \/ \E admin \in BOOLEAN : MsgViolAdmin(admin)
    \/ \E ok \in BOOLEAN : MsgViolDelete(ok)
    \/ \E ok \in BOOLEAN : MsgViolNotify(ok)
    \/ \E ok \in BOOLEAN, told \in BOOLEAN : MsgBanRet(ok, told)
    \/ \E ok \in BOOLEAN, told \in BOOLEAN : MsgMuteRet(ok, told)
    \/ \E admin \in BOOLEAN : MsgMediaAdmin(admin)
    \/ \E ok \in BOOLEAN : MsgMediaDelete(ok)
    \/ \E a \in Actors : WarnStart(a)
    \/ \E ok \in BOOLEAN : WarnBanRet(ok)
    \/ \E ok \in BOOLEAN : WarnMuteRet(ok)
    \/ HandlerReturn

SpecPolicy == InitPolicy /\ [][NextPolicy]_vars

\* ------------------------------------------------------ the job, in time
\* The job and the /warn command, with no event on an actor who is muted:
\* admins warn un-muted actors, the clock advances, and the JobQueue starts
\* check_expired_mutes every five minutes.  The job is started again and
\* again; is_bot_admin and the un-restrict call do not fail for ever.
WarnUnmuted(a) == ~rows[a].is_muted /\ WarnStart(a)

NextSweep ==
    \/ Tick
    \/ \E a \in Actors : WarnUnmuted(a)
    \/ \E ok \in BOOLEAN : WarnBanRet(ok)
    \/ \E ok \in BOOLEAN : WarnMuteRet(ok)
    \/ HandlerReturn
    \/ SweepStart
    \/ \E admin \in BOOLEAN, reuse \in BOOLEAN : SweepAdmin(admin, reuse)
    \/ \E res \in {"ok", "badrequest", "error"}, reuse \in BOOLEAN : SweepRet(res, reuse)

FairSweep ==
    /\ WF_vars(SweepStart)
    /\ SF_vars(\E reuse \in BOOLEAN : SweepAdmin(TRUE, reuse))
    /\ SF_vars(\E reuse \in BOOLEAN : SweepRet("ok", reuse))

SpecSweep == InitAdmin /\ [][NextSweep]_vars /\ FairSweep

\* ------------------------------------------------------------ anti-flood
\* The message handler and the clock in a group whose anti-flood interval is
\* one tick longer than FloodTime, so that a message can be within the
\* interval of the one before it and a tick away from it.
InitFlood ==
    /\ now = 0
    /\ tz = 0
    /\ group = [anti_flood_enabled |-> TRUE, anti_flood_limit |-> FloodLimit,
                anti_flood_time |-> FloodTime + 1,
                forbidden_words |-> Filtered,
                mute_on_warn_count |-> AdminThresholds[1],
                ban_on_warn_count |-> AdminThresholds[2]] @@ Locks({"photo"})
    /\ rows = [a \in Members |-> NoRow]
    /\ hpc = "idle"
    /\ h = H0
    /\ spc = "idle"
    /\ sw = S0
    /\ g = G0

NextFlood ==
    \/ Tick
    \/ \E a \in Actors, body \in Bodies, media \in MediaKinds :
          MsgStartUpTo(a, body, media, "none", MaxBurst)
    \/ \E admin \in BOOLEAN : MsgMutedDiscard(admin)
    \/ \E admin \in BOOLEAN : MsgUnmuteAdmin(admin)
    \/ \E ok \in BOOLEAN : MsgUnmuteRet(ok)
    \/ \E ok \in BOOLEAN : MsgUnmuteReply(ok)
    \/ \E admin \in BOOLEAN : MsgViolAdmin(admin)
    \/ \E ok \in BOOLEAN : MsgViolDelete(ok)
    \/ \E ok \in BOOLEAN : MsgViolNotify(ok)
    \/ \E ok \in BOOLEAN, told \in BOOLEAN : MsgBanRet(ok, told)
    \/ \E ok \in BOOLEAN, told \in BOOLEAN : MsgMuteRet(ok, told)
    \/ \E admin \in BOOLEAN : MsgMediaAdmin(admin)
    \/ \E ok \in BOOLEAN : MsgMediaDelete(ok)
    \/ HandlerReturn

SpecFlood == InitFlood /\ [][NextFlood]_vars

\* ------------------------------------------------- members and their mutes
\* The admin commands on the mute of a member, members who leave and join
\* again, their videos (no lock of the group is on them), the clock and the
\* job, in the group of the admin commands.
InitMembers ==
    /\ now = 0
    /\ tz = 0
    /\ group = [anti_flood_enabled |-> FALSE, anti_flood_limit |-> FloodLimit,
                anti_flood_time |-> FloodTime,
                forbidden_words |-> Filtered,
                mute_on_warn_count |-> AdminThresholds[1],
                ban_on_warn_count |-> AdminThresholds[2]] @@ Locks({"photo"})
    /\ rows = [a \in Members |-> NoRow]
    /\ hpc = "idle"
    /\ h = H0
    /\ spc = "idle"
    /\ sw = S0
    /\ g = G0

NextMembers ==
    \/ Tick
    \/ \E a \in Actors : MsgStart(a, <<>>, "video", "none")
    \/ \E admin \in BOOLEAN : MsgMutedDiscard(admin)
    \/ \E admin \in BOOLEAN : MsgUnmuteAdmin(admin)
    \/ \E ok \in BOOLEAN : MsgUnmuteRet(ok)
    \/ \E ok \in BOOLEAN : MsgUnmuteReply(ok)
    \/ \E admin \in BOOLEAN : MsgMediaAdmin(admin)
    \/ \E a \in Actors : WarnStart(a)
    \/ \E ok \in BOOLEAN : WarnBanRet(ok)
    \/ \E ok \in BOOLEAN : WarnMuteRet(ok)
    \/ \E a \in Actors, timed \in BOOLEAN : MuteStart(a, timed)
    \/ \E ok \in BOOLEAN : MuteCmdRet(ok)
    \/ \E found \in BOOLEAN, told \in BOOLEAN : MuteInfo(found, told)
    \/ \E a \in Actors : UnmuteStart(a)
    \/ \E ok \in BOOLEAN : UnmuteCmdRet(ok)
    \/ \E found \in BOOLEAN, told \in BOOLEAN : UnmuteInfo(found, told)
    \/ \E a \in Actors : Left(a)
    \/ \E a \in Actors : Joined(a)
    \/ HandlerReturn
    \/ SweepStart
    \/ \E admin \in BOOLEAN, reuse \in BOOLEAN : SweepAdmin(admin, reuse)
    \/ \E res \in {"ok", "badrequest", "error"}, reuse \in BOOLEAN : SweepRet(res, reuse)

SpecMembers == InitMembers /\ [][NextMembers]_vars

\* ---------------------------------------------------------------- senders
\* Messages of members, of admins, of the bot and of its owner, in the
\* group of the admin commands.
NextSenders ==
    \/ \E a \in Actors, body \in Bodies, media \in MediaKinds : MsgStart(a, body, media, "none")
    \/ \E a \in Actors, role \in Privileged, known \in BOOLEAN,
          body \in Bodies, media \in MediaKinds :
          PrivilegedMsg(a, role, known, body, media, "none")
    \/ \E admin \in BOOLEAN : MsgMutedDiscard(admin)
    \/ \E admin \in BOOLEAN : MsgViolAdmin(admin)
    \/ \E ok \in BOOLEAN : MsgViolDelete(ok)
    \/ \E ok \in BOOLEAN : MsgViolNotify(ok)
    \/ \E ok \in BOOLEAN, told \in BOOLEAN : MsgBanRet(ok, told)
    \/ \E ok \in BOOLEAN, told \in BOOLEAN : MsgMuteRet(ok, told)
    \/ \E admin \in BOOLEAN : MsgMediaAdmin(admin)
    \/ \E ok \in BOOLEAN : MsgMediaDelete(ok)
    \/ HandlerReturn

SpecSenders == InitMembers /\ [][NextSenders]_vars

\* ------------------------------------------------- the job on several rows
\* Two members whom the admins mute for a time when they are not muted and
\* no un-restrict call has un-muted them before, and who may leave while
\* muted; the clock and the job, which finds the expired mutes of both.
MuteUnmuted(a) == ~rows[a].is_muted /\ g.unres[a] = 0 /\ MuteStart(a, TRUE)

NextSweepAll ==
    \/ Tick
    \/ \E a \in Members : MuteUnmuted(a)
    \/ \E ok \in BOOLEAN : MuteCmdRet(ok)
    \/ \E found \in BOOLEAN, told \in BOOLEAN : MuteInfo(found, told)
    \/ \E a \in Members : rows[a].is_muted /\ Left(a)
    \/ HandlerReturn
    \/ SweepStart
    \/ \E admin \in BOOLEAN, reuse \in BOOLEAN : SweepAdmin(admin, reuse)
    \/ \E res \in {"ok", "badrequest", "error"}, reuse \in BOOLEAN : SweepRet(res, reuse)

SpecSweepAll == InitMembers /\ [][NextSweepAll]_vars

TypeOK ==
    /\ now \in 0..MaxTime
    /\ hpc \in {"idle", "done", "m_muted", "m_unmute_admin", "m_unmute_call", "m_unmute_reply",
                "m_viol_admin", "m_viol_del", "m_viol_notify", "m_ban_call", "m_mute_call",
                "m_media_admin", "m_media_del",
                "w_ban_call", "w_mute_call", "b_call", "b_info", "mu_call", "mu_info", "uw_info",
                "um_call", "um_info"}
    /\ spc \in {"idle", "admin", "call"}
    /\ \A a \in Actors : rows[a].warns \in 0..MaxWarns

\* =================================================================
\* Properties
\* =================================================================
EventOver == hpc = "done"
Escalated == EventOver /\ h.kind \in {"msg", "warn"} /\ h.inc

\* C1: every violation whose warn was counted issues exactly one Ban and no
\* Mute when the new warn count is at or above the ban threshold, otherwise
\* exactly one Mute and no Ban when it is at or above the mute threshold;
\* never both.
C1_OneActionPerViolation ==
    Escalated =>
        LET w == h.w0 + 1
        IN /\ (w >= group.ban_on_warn_count => h.nban = 1 /\ h.nmute = 0)
           /\ (w < group.ban_on_warn_count /\ w >= group.mute_on_warn_count
                  => h.nmute = 1 /\ h.nban = 0)
           /\ ~(h.nban > 0 /\ h.nmute > 0)

\* C2: as long as the number of violations of an actor since its row was
\* created is below both thresholds, once no event is in progress the warn
\* count equals that number.
C2_WarnsEqualViolations ==
    \A a \in Actors :
        ( /\ hpc \in {"idle", "done"}
          /\ rows[a].exists
          /\ g.viol[a] < MinThreshold )
        => rows[a].warns = g.viol[a]

\* C3: the violation that reaches the mute threshold leaves the actor muted
\* until utcnow() + the mute duration, every counted violation adds one
\* warn, and the violation that reaches the ban threshold and bans deletes
\* the row.
C3_EscalationScenario ==
    [][ /\ ( hpc \in {"m_mute_call", "w_mute_call"} /\ h'.res = "mute_ok"
             => /\ rows'[h.actor].is_muted
                /\ rows'[h.actor].mute_until = Some(h.at + MuteDuration) )
        /\ ( hpc \in {"m_ban_call", "w_ban_call"} /\ h'.res = "ban_ok"
             => ~rows'[h.actor].exists )
        /\ ( ~h.inc /\ h'.inc => rows'[h.actor].warns = h'.w0 + 1 ) ]_vars

\* C4: once a Ban call has succeeded (by escalation or by /ban, with or
\* without the user's info at hand) and the event is over, the actor has no
\* row, and get-or-create gives a row with the column defaults.
C4_BanClearsRow ==
    (EventOver /\ h.res \in {"ban_ok", "ban_noinfo"})
        => /\ ~rows[h.actor].exists
           /\ get_or_create_group_user(h.actor) = GroupUser

\* C5: a handler and the job are never in progress on the same actor at the
\* same time.
C5_Serialized == \A a \in Actors : ~(HandlerBusy(a) /\ SweeperBusy(a))

\* C6: the warn count of a row is the number of warns added to it since it
\* was created, whatever the job wrote in between; and a mute the job
\* cleared while a handler was in progress is not brought back by that
\* handler's writes.
C6_NoLostUpdate ==
    \A a \in Actors :
        /\ rows[a].exists => rows[a].warns = g.counted[a]
        /\ g.cleared[a] # None
               => ~(rows[a].is_muted /\ rows[a].mute_until = g.cleared[a])

\* C6 witness: a /warn or a violation and the job overlapped on the actor,
\* the job cleared the expired mute meanwhile, and the event is over with
\* the warn in the row and the actor un-muted.
C6_Witness ==
    /\ EventOver /\ h.inc /\ h.nmute = 0
    /\ g.raced[h.actor] /\ g.cleared[h.actor] # None
    /\ rows[h.actor].exists
    /\ rows[h.actor].warns = h.w0 + 1
    /\ ~rows[h.actor].is_muted /\ rows[h.actor].mute_until = None

\* C7: at most one successful Unrestrict call per mute, and the job issues
\* no Unrestrict call for an actor that is not muted any more.
C7_OneUnrestrict ==
    [][ /\ \A a \in Actors : g'.unres[a] <= 1
        /\ ( spc = "admin" /\ spc' = "call" => rows[Head(sw.queue)].is_muted ) ]_vars

UnexpiredMute(r) ==
    r.exists /\ r.is_muted /\ (r.mute_until = None \/ Val(r.mute_until) >= UtcNow)

\* C8: the job issues no Unrestrict call for, and clears no row of, an actor
\* whose mute is unexpired at that moment.
C8_SweeperSparesNewMute ==
    [][ /\ ( spc = "admin" /\ spc' = "call" => ~UnexpiredMute(rows[Head(sw.queue)]) )
        /\ ( spc = "call" /\ rows' # rows => ~UnexpiredMute(rows[Head(sw.queue)]) ) ]_vars

\* C9: after a failed Restrict call of a mute decision the row has the warn
\* of that violation, and an actor that was not muted is not muted and has
\* no mute_until.
C9_FailedMuteKeepsWarn ==
    (EventOver /\ h.res = "mute_fail")
        => /\ rows[h.actor].exists
           /\ rows[h.actor].warns = h.w0 + 1
           /\ (~h.base.is_muted => ~rows[h.actor].is_muted)
           /\ (h.base.mute_until = None => rows[h.actor].mute_until = None)

C9_Witness ==
    /\ EventOver /\ h.res = "mute_fail" /\ h.nmute = 1
    /\ rows[h.actor].warns = h.w0 + 1
    /\ rows[h.actor].warns >= group.mute_on_warn_count
    /\ ~rows[h.actor].is_muted /\ rows[h.actor].mute_until = None

\* C10: after a failed Ban call of a ban decision the row is still there
\* with its warn count at or above the ban threshold; and a violation of an
\* actor whose count is already there, once its thresholds are checked,
\* issues Ban again and no Mute.
ThresholdsChecked == Escalated /\ h.res # "notify_fail"

SweepCallFails == \E reuse \in BOOLEAN : SweepRet("badrequest", reuse) \/ SweepRet("error", reuse)

C12_FailedSweepKeepsMute ==
    [][ SweepCallFails
        => /\ rows'[Head(sw.queue)].is_muted = rows[Head(sw.queue)].is_muted
           /\ rows'[Head(sw.queue)].mute_until = rows[Head(sw.queue)].mute_until ]_vars

\* C13: when the un-restrict call of the handler for an expired mute fails,
\* the row stays muted with its mute_until; when it succeeds the row is
\* cleared and the rules are evaluated on the un-muted row.
C13_InlineClearOnlyOnSuccess ==
    [][ hpc = "m_unmute_call"
        => /\ ( h'.res = "unmute_fail"
                => /\ rows'[h.actor].is_muted
                   /\ rows'[h.actor].mute_until = rows[h.actor].mute_until )
           /\ ( h'.res = "unmute_ok" => ~rows'[h.actor].is_muted ) ]_vars

\* C11: is_muted goes from false to true only in a step of the handler of
\* that actor that follows a successful Restrict call (the return of the
\* call in an escalation, the commit after the call in /mute), and a row is
\* deleted only in a step that follows a successful Ban call for that actor.
AfterRestrict(a) ==
    /\ h.actor = a
    /\ \/ hpc \in {"m_mute_call", "w_mute_call"} /\ h'.res = "mute_ok"
       \/ hpc = "mu_info" /\ h.res = "restrict_ok"

AfterBan(a) ==
    /\ h.actor = a
    /\ \/ hpc \in {"m_ban_call", "w_ban_call"} /\ h'.res = "ban_ok"
       \/ hpc = "b_info" /\ h.res = "ban_ok"

C11_StateFollowsEffect ==
    [][ \A a \in Actors :
          /\ ( ~rows[a].is_muted /\ rows'[a].is_muted => AfterRestrict(a) )
          /\ ( rows[a].exists /\ ~rows'[a].exists => AfterBan(a) ) ]_vars

\* C11 witness: an escalation has muted the actor after its Restrict call
\* succeeded.
C11_Witness ==
    /\ Escalated /\ h.res = "mute_ok" /\ h.nmute = 1
    /\ ~h.base.is_muted
    /\ rows[h.actor].is_muted

\* C17: in every row is_muted is true if and only if mute_until is present.
C17_MutedIffUntil ==
    \A a \in Actors : rows[a].exists => (rows[a].is_muted <=> rows[a].mute_until # None)

\* C18: no row has a negative warn count, and an /unwarn on a row with no
\* warns leaves it at 0.
C18_WarnsNeverNegative ==
    /\ \A a \in Actors : rows[a].warns >= 0
    /\ (EventOver /\ h.kind = "unwarn" /\ h.w0 = 0 /\ rows[h.actor].exists)
           => rows[h.actor].warns = 0

\* C18 witness: an /unwarn has found the row of the actor with no warns.
C18_Witness ==
    /\ EventOver /\ h.kind = "unwarn" /\ h.res = "unwarn_none"
    /\ h.base.exists /\ h.w0 = 0
    /\ rows[h.actor].exists /\ rows[h.actor].warns = 0

\* C19: when an event is over, log_admin_action has added one record for
\* each enforcement attempt of the event: the warn, each Ban call, each
\* Restrict call, each un-restrict call, whether the call succeeded or not.
Attempts(hh) == (IF hh.inc THEN 1 ELSE 0) + hh.nban + hh.nmute + hh.nunres

C19_AuditPerAttempt == EventOver => h.nlog = Attempts(h)

\* C20: every message a rule matched (flood, forbidden word, locked media)
\* and that was deleted for it has added one warn to the actor's row.
Classified == EventOver /\ h.kind = "msg" /\ h.cls # "none"

C20_EveryClassWarns ==
    (Classified /\ h.ndel = 1 /\ h.res # "delete_fail") => h.inc

\* C14: a text message counted more than anti_flood_time after the actor's
\* last counted one (or as the actor's first) leaves the counter at 1 and is
\* not classified as flood.
Counted == hpc # "idle" /\ h.kind = "msg" /\ h.gap # "none"

C14_SpacedNeverFlood ==
    (Counted /\ h.gap \in {"first", "apart"})
        => /\ h.cls # "flood"
           /\ h.run = 1
           /\ rows[h.actor].exists => rows[h.actor].message_count_in_interval = 1

\* C14 witness: a message counted more than anti_flood_time after the one
\* before it.
C14_Witness ==
    /\ Counted /\ h.gap = "apart"
    /\ rows[h.actor].exists
    /\ rows[h.actor].message_count_in_interval = 1
    /\ rows[h.actor].last_message_time = Some(UtcNow)

SameLetter(c, d) == c = d \/ {c, d} = {"a", "A"}

ContainsAnyCase(t, w) ==
    \E i \in 0..(Len(t) - Len(w)) : \A j \in 1..Len(w) : SameLetter(t[i + j], w[j])

WordHits(t) ==
    {i \in 1..Len(group.forbidden_words) : ContainsAnyCase(t, group.forbidden_words[i])}

Evaluated == hpc \notin {"idle", "m_muted"} /\ h.kind = "msg" /\ h.text /\ ~h.base.is_muted

EventKinds(hh) ==
    (IF hh.media # "none" THEN {hh.media} ELSE {}) \cup (IF hh.fwd # "none" THEN {"forward"} ELSE {})

Locked(k) == \E f \in DOMAIN Locks({k}) : Locks({k})[f] /\ group[f]

MatchesFlood(hh) ==
    /\ group.anti_flood_enabled /\ hh.text
    /\ hh.base.message_count_in_interval > group.anti_flood_limit
MatchesWord(hh) == hh.text /\ WordHits(hh.body) # {}
MatchesMedia(hh) == \E k \in EventKinds(hh) : Locked(k)

Passed == hpc \notin {"idle", "m_muted"} /\ h.kind = "msg" /\ ~h.base.is_muted

C22_DeletedOnlyIfLocked ==
    (h.kind = "msg" /\ h.cls = "media") => MatchesMedia(h)

\* C23: the flood counter is a fixed window.  A text message counted less
\* than anti_flood_time after the start of the window adds one to the
\* counter and leaves the start of the window, which last_message_time
\* holds, where it was; one counted anti_flood_time or more after the start
\* sets the counter to 1 and the start to now, however close it is to the
\* message before it.
WindowStart(a) == g.wstart[a]

C23_FixedWindow ==
    (Counted /\ hpc \in {"done", "m_viol_admin", "m_media_admin"})
        => /\ h.run >= 2 => h.base.last_message_time = WindowStart(h.actor)
           /\ h.run = 0 => h.base.message_count_in_interval = 1

\* C24: in a group whose ban threshold is at or below its mute threshold no
\* violation issues a Mute, and a violation whose thresholds are checked
\* with the warn count at or above the ban threshold issues a Ban.
BanFirstGroup == group.ban_on_warn_count <= group.mute_on_warn_count

SettingsChange == group' # group

C30_NotRetroactive ==
    /\ [][ SettingsChange
             => /\ rows' = rows
                /\ h'.nban = 0 /\ h'.nmute = 0 /\ h'.ndel = 0
                /\ spc' = spc /\ sw' = sw ]_vars
    /\ [](ThresholdsChecked
             => /\ h.w0 + 1 >= group.ban_on_warn_count => h.nban = 1 /\ h.nmute = 0
                /\ (h.w0 + 1 < group.ban_on_warn_count /\ h.w0 + 1 >= group.mute_on_warn_count)
                      => h.nmute = 1 /\ h.nban = 0)

\* C30 witness: the mute threshold has just been lowered to the warn count
\* an un-muted actor already has, and the actor is still un-muted.
C30_Witness ==
    /\ hpc = "done" /\ h.kind = "settings"
    /\ group.mute_on_warn_count < DefaultMuteOnWarn
    /\ \E a \in Actors :
          /\ rows[a].exists /\ ~rows[a].is_muted /\ rows[a].mute_until = None
          /\ rows[a].warns = group.mute_on_warn_count
          /\ g.counted[a] = rows[a].warns

\* C25: a message of an un-muted actor that matches no rule (no flood, no
\* forbidden word, no content whose lock is on) leaves warns, is_muted and
\* mute_until of the row as they were and causes no delete, no Restrict, no
\* Ban and no warning.
MatchesNone(hh) == ~MatchesFlood(hh) /\ ~MatchesWord(hh) /\ ~MatchesMedia(hh)

C25_NoneLeavesAlone ==
    (Passed /\ MatchesNone(h))
        => /\ h.ndel = 0 /\ h.nban = 0 /\ h.nmute = 0 /\ ~h.inc
           /\ rows[h.actor].warns = h.w0
           /\ rows[h.actor].is_muted = h.base.is_muted
           /\ rows[h.actor].mute_until = h.base.mute_until

\* C26: when the delete of a message the flood or the forbidden-word rule
\* matched fails, the warn of that violation is still counted and the
\* thresholds are still checked.
C26_DeleteFailureNonFatal ==
    (EventOver /\ h.kind = "msg" /\ h.cls \in {"flood", "word"} /\ h.res = "delete_fail")
        => /\ h.inc
           /\ rows[h.actor].exists => rows[h.actor].warns = h.w0 + 1
           /\ h.w0 + 1 >= MinThreshold => h.nban + h.nmute = 1

\* C27: when a violation cannot be enforced because the bot is no admin of
\* the group, or because a call of the bot is rejected, the warn is still
\* counted and the group is told what failed.
\* The answer of /warn names a Ban or Restrict call that failed and its
\* error; the message handler sends nothing on its failure paths.
FailureNotice(hh) == hh.kind = "warn" /\ hh.res \in {"ban_fail", "mute_fail"}

Unenforced(hh) ==
    \/ hh.cls \in {"flood", "word"} /\ hh.ndel = 0
    \/ hh.res \in {"delete_fail", "ban_fail", "mute_fail"}

C27_PermissionKeepsWarn ==
    (EventOver /\ h.kind = "msg" /\ Unenforced(h)) => (h.inc /\ FailureNotice(h))

\* C28: no step of the job check_expired_mutes, whether its call succeeds or
\* fails, changes warns or the flood counter of any row, creates a row or
\* deletes one: the job writes is_muted and mute_until only.
SweeperStep ==
    \/ SweepStart
    \/ \E admin \in BOOLEAN, reuse \in BOOLEAN : SweepAdmin(admin, reuse)
    \/ \E res \in {"ok", "badrequest", "error"}, reuse \in BOOLEAN : SweepRet(res, reuse)

C28_SweeperKeepsWarns ==
    [][ SweeperStep
          => \A a \in Actors :
                /\ rows'[a].exists = rows[a].exists
                /\ rows'[a].warns = rows[a].warns
                /\ rows'[a].message_count_in_interval = rows[a].message_count_in_interval
                /\ rows'[a].last_message_time = rows[a].last_message_time ]_vars

\* C28 witness: the job has cleared the expired mute of an actor while a
\* /warn on that actor was in progress, and the warn of the command and
\* every warn before it are on the row.
C28_Witness ==
    /\ h.kind = "warn" /\ h.inc /\ hpc # "idle"
    /\ g.cleared[h.actor] # None
    /\ rows[h.actor].exists /\ ~rows[h.actor].is_muted
    /\ rows[h.actor].warns = h.w0 + 1
    /\ rows[h.actor].warns = g.counted[h.actor]

\* C29: a row that is muted with its mute_until behind utcnow() is, with no
\* further event on the actor, eventually a row that is not muted and has no
\* mute_until.
C29_ExpiredMuteLifted ==
    \A a \in Actors :
        (rows[a].exists /\ rows[a].is_muted /\ rows[a].mute_until # None
            /\ Val(rows[a].mute_until) < now)
          ~> (~rows[a].is_muted /\ rows[a].mute_until = None)

\* C29 witness: the job has lifted the mute of an actor whose warns are at
\* the mute threshold, and the row is there, un-muted.
C29_Witness ==
    \E a \in Actors :
        /\ spc = "idle" /\ hpc = "idle"
        /\ rows[a].exists /\ rows[a].warns >= group.mute_on_warn_count
        /\ ~rows[a].is_muted /\ rows[a].mute_until = None
        /\ g.unres[a] = 1

\* C31: a message of an actor whose row is muted, with no mute_until or with
\* one that utcnow() has not passed, is taken to the branch of the muted
\* sender; the steps of that branch leave the row of the actor as it is,
\* count no warn, issue no Ban, Restrict or un-restrict call and match no
\* rule, and the branch ends the handler after one delete attempt at most.
MutedStep == (hpc = "idle" /\ hpc' = "m_muted") \/ (hpc = "m_muted" /\ hpc' # "m_muted")

C31_MutedOnlyDeleted ==
    [][ /\ ( hpc = "idle" /\ h'.kind = "msg" /\ UnexpiredMute(rows[h'.actor])
             => hpc' = "m_muted" )
        /\ ( MutedStep
             => /\ rows'[h'.actor] = rows[h'.actor]
                /\ ~h'.inc /\ h'.nban = 0 /\ h'.nmute = 0 /\ h'.nunres = 0
                /\ h'.cls = "none" /\ h'.gap = "none"
                /\ h'.ndel <= 1
                /\ hpc = "m_muted" => hpc' = "done" ) ]_vars

\* C31 witness: a text with a forbidden word from an actor muted without a
\* mute_until: its delete was issued, the handler is over and the row is as
\* the handler found it.
C31_Witness ==
    /\ EventOver /\ h.kind = "msg" /\ h.word
    /\ h.base.is_muted /\ h.base.mute_until = None
    /\ h.cls = "none" /\ h.ndel = 1 /\ ~h.inc /\ h.nunres = 0
    /\ rows[h.actor] = h.base

Indefinite(r) == r.exists /\ r.is_muted /\ r.mute_until = None

ManualRelease(a) ==
    /\ h'.actor = a
    /\ \/ hpc = "um_info"
       \/ hpc \in {"m_ban_call", "w_ban_call"} /\ h'.res = "ban_ok"
       \/ hpc = "b_info" /\ h.res = "ban_ok"
       \/ hpc = "idle" /\ h'.kind = "left"

C33_IndefiniteMuteStays ==
    [][ \A a \in Actors :
          Indefinite(rows[a])
            => /\ ( spc = "idle" /\ spc' = "admin" => a \notin Range(sw'.queue) )
               /\ ( hpc = "idle" /\ h'.kind = "msg" /\ h'.actor = a => hpc' = "m_muted" )
               /\ ( ~(rows'[a].exists /\ rows'[a].is_muted) => ManualRelease(a) ) ]_vars

\* C34: a message of the bot itself, of the bot's owner or of an admin of
\* the group is not evaluated: the steps of its handler create no row and
\* change none, and it is over at once with no rule matched, nothing
\* counted, and no delete, warn, Restrict or Ban.
C34_PrivilegedIgnored ==
    [][ (h'.kind = "msg" /\ h'.role \in Privileged /\ hpc' # hpc)
          => /\ rows' = rows
             /\ hpc' = "done"
             /\ h'.cls = "none" /\ h'.gap = "none"
             /\ h'.ndel = 0 /\ ~h'.inc /\ h'.nmute = 0 /\ h'.nban = 0 ]_vars

WarnMutes ==
    /\ hpc # "idle" /\ h.kind = "warn"
    /\ h.w0 + 1 >= group.mute_on_warn_count
    /\ h.w0 + 1 < group.ban_on_warn_count

C36_WarnOverwritesMute ==
    [][ /\ ( WarnMutes' => h'.nmute = 1 /\ h'.nban = 0 )
        /\ ( (WarnMutes /\ hpc = "w_mute_call" /\ h'.res = "mute_ok")
               => /\ rows'[h.actor].is_muted
                  /\ rows'[h.actor].mute_until = Some(h.at + MuteDuration) ) ]_vars

\* C37: when the job fails on one of the rows it selected (the bot is no
\* admin, or the un-restrict call raises) and the rows after it in the
\* selection are still there, the job goes on to the next of them.
SweepFails ==
    \E reuse \in BOOLEAN :
        SweepAdmin(FALSE, reuse) \/ SweepRet("badrequest", reuse) \/ SweepRet("error", reuse)

C37_SweepGoesOn ==
    [][ ( /\ SweepFails
          /\ Len(sw.queue) > 1
          /\ \A i \in 2..Len(sw.queue) : rows[sw.queue[i]].exists /\ sw.queue[i] \notin sw.gone )
          => /\ spc' = "admin"
             /\ sw'.queue = Tail(sw.queue) ]_vars

\* C38: message_count_in_interval and last_message_time of a row that stays
\* are changed only by the step that evaluates a text message of its actor
\* while anti-flood is on in the group; and no message without a text, and
\* none in a group with anti-flood off, is classified as flood.
C38_OnlyTextCounts ==
    [][ /\ \A a \in Actors :
              ( /\ rows'[a].exists
                /\ \/ rows'[a].message_count_in_interval # rows[a].message_count_in_interval
                   \/ rows'[a].last_message_time # rows[a].last_message_time )
              => /\ h'.actor = a /\ h'.kind = "msg" /\ hpc' # hpc
                 /\ h'.text /\ group.anti_flood_enabled
        /\ ( h'.kind = "msg" /\ h'.cls = "flood" => h'.text /\ group.anti_flood_enabled ) ]_vars

\* C38 witness: anti-flood was switched off with a text of the actor counted
\* on the row; the actor's next text, a forbidden word in it, is handled for
\* the word and leaves the counter and last_message_time as they were.
C38_Witness ==
    /\ EventOver /\ h.kind = "msg" /\ h.text /\ ~group.anti_flood_enabled
    /\ h.cls = "word" /\ h.inc /\ h.gap = "none"
    /\ rows[h.actor].exists
    /\ rows[h.actor].message_count_in_interval >= 1
    /\ rows[h.actor].message_count_in_interval = h.base.message_count_in_interval
    /\ rows[h.actor].last_message_time # None

====
